---- MODULE Spec2Model ----
(***************************************************************************)
(* TokengatedCommunity (contracts/TokengatedCommunity.sol): a membership   *)
(* contract gated on a FanToken (ERC20) balance, owned through             *)
(* OpenZeppelin's Ownable.  Every transaction is one atomic step; a        *)
(* reverted transaction changes no storage and emits no event.             *)
(***************************************************************************)
EXTENDS Integers, Sequences, FiniteSets, TLC

\* ---- bounds ----
NumAccounts == 2        \* externally owned accounts 1..NumAccounts
MaxAmount == 1          \* uint256 arguments / thresholds range over 0..MaxAmount
MaxSupply == 1          \* FanToken initialSupply ranges over 0..MaxSupply

Accounts == 1..NumAccounts
Zero == 0                         \* address(0)
Addresses == Accounts \cup {Zero}
Amounts == 0..MaxAmount
FanTokenAddress == NumAccounts + 1   \* address of the deployed FanToken
\* The migrations deploy FanToken and TokengatedCommunity from the first
\* account (accounts are interchangeable, so this loses no behaviour).
deployer == 1

\* ---- revert reasons ----
Ok == "ok"
AlreadyMember == "Already a member"
InsufficientBalance == "Insufficient token balance"
NotOwner == "Ownable: caller is not the owner"
ZeroOwner == "Ownable: new owner is the zero address"

VARIABLES
    owner,             \* Ownable._owner
    fanToken,          \* IERC20 public fanToken
    entryTokenAmount,  \* uint256 public entryTokenAmount
    members,           \* mapping(address => bool) public members
    isConcertLive,     \* bool public isConcertLive
    events,            \* log of the events TokengatedCommunity declares, oldest first
    balances,          \* FanToken balances (storage of the token contract)
    deployerCalled,    \* has the deployer sent a transaction to this contract since construction (history)
    lastCall           \* the transaction executed by the last step and its outcome

vars == <<owner, fanToken, entryTokenAmount, members, isConcertLive, events,
          balances, deployerCalled, lastCall>>

contractState == <<owner, fanToken, entryTokenAmount, members, isConcertLive, events>>

\* ---- events ----
MemberJoined(a) == [name |-> "MemberJoined", member |-> a]

Call(op, sender, amount, flag, user, result, ret) ==
    [op |-> op, sender |-> sender, amount |-> amount, flag |-> flag,
     user |-> user, result |-> result, ret |-> ret]

\* ---- FanToken (ERC20) ----
balanceOf(a) == balances[a]

RECURSIVE SumBalances(_)
SumBalances(S) ==
    IF S = {} THEN 0
    ELSE LET a == CHOOSE x \in S : TRUE IN balances[a] + SumBalances(S \ {a})

totalSupply == SumBalances(Accounts)

\* ---- pure parts of the handlers ----
\* variant: the modifier lets every caller through
onlyOwner_anyone(sender) == Ok

onlyOwner(sender) == IF sender = owner THEN Ok ELSE NotOwner

\* variant: strict comparison of the balance with the threshold
joinCommunityResult_strict(sender) ==
    IF members[sender] THEN AlreadyMember
    ELSE IF ~(balanceOf(sender) > entryTokenAmount) THEN InsufficientBalance
    ELSE Ok

\* variant: the two require statements in the opposite order
joinCommunityResult_balanceFirst(sender) ==
    IF ~(balanceOf(sender) >= entryTokenAmount) THEN InsufficientBalance
    ELSE IF members[sender] THEN AlreadyMember
    ELSE Ok

\* variant: admission closed while the concert is live
joinCommunityResult_whenLive(sender) ==
    IF members[sender] THEN AlreadyMember
    ELSE IF isConcertLive \/ ~(balanceOf(sender) >= entryTokenAmount) THEN InsufficientBalance
    ELSE Ok

\* variant: the membership check is missing
joinCommunityResult_noMemberCheck(sender) ==
    IF ~(balanceOf(sender) >= entryTokenAmount) THEN InsufficientBalance
    ELSE Ok

\* variant: the balance check is missing
joinCommunityResult_noBalanceCheck(sender) ==
    IF members[sender] THEN AlreadyMember
    ELSE Ok

joinCommunityResult(sender) ==
    IF members[sender] THEN AlreadyMember
    ELSE IF ~(balanceOf(sender) >= entryTokenAmount) THEN InsufficientBalance
    ELSE Ok

isMember(user) == members[user]

\* ---- construction ----
Init ==
    \E d \in {deployer}, t \in Amounts, s \in 0..MaxSupply :
        /\ owner = d
        /\ fanToken = FanTokenAddress
        /\ entryTokenAmount = t
        /\ members = [a \in Accounts |-> FALSE]
        /\ isConcertLive = FALSE
        /\ events = <<>>
        /\ balances = [a \in Accounts |-> IF a = d THEN s ELSE 0]
        /\ deployerCalled = FALSE
        /\ lastCall = Call("constructor", d, t, FALSE, FanTokenAddress, Ok, FALSE)

Called(sender) == deployerCalled' = (deployerCalled \/ sender = deployer)

\* ---- transactions ----
\* variant: the members mapping is overwritten instead of updated
joinCommunity_overwrite(sender) ==
    LET r == joinCommunityResult(sender) IN
    /\ lastCall' = Call("joinCommunity", sender, 0, FALSE, Zero, r, FALSE)
    /\ Called(sender)
    /\ IF r = Ok
       THEN /\ members' = [a \in Accounts |-> a = sender]
            /\ events' = Append(events, MemberJoined(sender))
       ELSE UNCHANGED <<members, events>>
    /\ UNCHANGED <<owner, fanToken, entryTokenAmount, isConcertLive, balances>>

\* variant: a failed check returns early instead of reverting, after the event
joinCommunity_emitFirst(sender) ==
    LET r == joinCommunityResult(sender) IN
    /\ lastCall' = Call("joinCommunity", sender, 0, FALSE, Zero, r, FALSE)
    /\ Called(sender)
    /\ events' = Append(events, MemberJoined(sender))
    /\ IF r = Ok
       THEN members' = [members EXCEPT ![sender] = TRUE]
       ELSE UNCHANGED members
    /\ UNCHANGED <<owner, fanToken, entryTokenAmount, isConcertLive, balances>>

\* variant: the owner is admitted along with the caller
joinCommunity_withOwner(sender) ==
    LET r == joinCommunityResult(sender) IN
    /\ lastCall' = Call("joinCommunity", sender, 0, FALSE, Zero, r, FALSE)
    /\ Called(sender)
    /\ IF r = Ok
       THEN /\ members' = [a \in Accounts |-> members[a] \/ a = sender \/ a = owner]
            /\ events' = Append(events, MemberJoined(sender))
       ELSE UNCHANGED <<members, events>>
    /\ UNCHANGED <<owner, fanToken, entryTokenAmount, isConcertLive, balances>>

\* variant: the emit statement is missing
joinCommunity_noEmit(sender) ==
    LET r == joinCommunityResult(sender) IN
    /\ lastCall' = Call("joinCommunity", sender, 0, FALSE, Zero, r, FALSE)
    /\ Called(sender)
    /\ IF r = Ok
       THEN members' = [members EXCEPT ![sender] = TRUE]
       ELSE UNCHANGED members
    /\ UNCHANGED <<owner, fanToken, entryTokenAmount, isConcertLive, events, balances>>

\* variant: the entry tokens are taken from the caller on admission
joinCommunity_takeTokens(sender) ==
    LET r == joinCommunityResult(sender) IN
    /\ lastCall' = Call("joinCommunity", sender, 0, FALSE, Zero, r, FALSE)
    /\ Called(sender)
    /\ IF r = Ok
       THEN /\ members' = [members EXCEPT ![sender] = TRUE]
            /\ events' = Append(events, MemberJoined(sender))
            /\ balances' = [balances EXCEPT ![sender] = @ - entryTokenAmount]
       ELSE UNCHANGED <<members, events, balances>>
    /\ UNCHANGED <<owner, fanToken, entryTokenAmount, isConcertLive>>

\* variant: the event names the owner instead of the caller
joinCommunity_emitOwner(sender) ==
    LET r == joinCommunityResult(sender) IN
    /\ lastCall' = Call("joinCommunity", sender, 0, FALSE, Zero, r, FALSE)
    /\ Called(sender)
    /\ IF r = Ok
       THEN /\ members' = [members EXCEPT ![sender] = TRUE]
            /\ events' = Append(events, MemberJoined(owner))
       ELSE UNCHANGED <<members, events>>
    /\ UNCHANGED <<owner, fanToken, entryTokenAmount, isConcertLive, balances>>

joinCommunity(sender) ==
    LET r == joinCommunityResult(sender) IN
    /\ lastCall' = Call("joinCommunity", sender, 0, FALSE, Zero, r, FALSE)
    /\ Called(sender)
    /\ IF r = Ok
       THEN /\ members' = [members EXCEPT ![sender] = TRUE]
            /\ events' = Append(events, MemberJoined(sender))
       ELSE UNCHANGED <<members, events>>
    /\ UNCHANGED <<owner, fanToken, entryTokenAmount, isConcertLive, balances>>

\* variant: the onlyOwner modifier is missing
setConcertStatus_noModifier(sender, _isConcertLive) ==
    /\ lastCall' = Call("setConcertStatus", sender, 0, _isConcertLive, Zero, Ok, FALSE)
    /\ Called(sender)
    /\ isConcertLive' = _isConcertLive
    /\ UNCHANGED <<owner, fanToken, entryTokenAmount, members, events, balances>>

setConcertStatus(sender, _isConcertLive) ==
    LET r == onlyOwner(sender) IN
    /\ lastCall' = Call("setConcertStatus", sender, 0, _isConcertLive, Zero, r, FALSE)
    /\ Called(sender)
    /\ IF r = Ok
       THEN isConcertLive' = _isConcertLive
       ELSE UNCHANGED isConcertLive
    /\ UNCHANGED <<owner, fanToken, entryTokenAmount, members, events, balances>>

\* variant: a new threshold is applied to the existing members
setEntryTokenAmount_retroactive(sender, _newEntryTokenAmount) ==
    LET r == onlyOwner(sender) IN
    /\ lastCall' = Call("setEntryTokenAmount", sender, _newEntryTokenAmount, FALSE, Zero, r, FALSE)
    /\ Called(sender)
    /\ IF r = Ok
       THEN /\ entryTokenAmount' = _newEntryTokenAmount
            /\ members' = [a \in Accounts |-> members[a] /\ balanceOf(a) >= _newEntryTokenAmount]
       ELSE UNCHANGED <<entryTokenAmount, members>>
    /\ UNCHANGED <<owner, fanToken, isConcertLive, events, balances>>

setEntryTokenAmount(sender, _newEntryTokenAmount) ==
    LET r == onlyOwner(sender) IN
    /\ lastCall' = Call("setEntryTokenAmount", sender, _newEntryTokenAmount, FALSE, Zero, r, FALSE)
    /\ Called(sender)
    /\ IF r = Ok
       THEN entryTokenAmount' = _newEntryTokenAmount
       ELSE UNCHANGED entryTokenAmount
    /\ UNCHANGED <<owner, fanToken, members, isConcertLive, events, balances>>

isMemberCall(_user) ==
    /\ lastCall' = Call("isMember", Zero, 0, FALSE, _user, Ok, isMember(_user))
    /\ UNCHANGED <<contractState, balances, deployerCalled>>

\* ---- inherited from Ownable ----
\* (Ownable's own OwnershipTransferred log entries are not part of events)
\* variant: transferOwnership without the onlyOwner modifier
transferOwnershipResult_noModifier(sender, newOwner) ==
    IF newOwner = Zero THEN ZeroOwner ELSE Ok

transferOwnershipResult(sender, newOwner) ==
    IF onlyOwner(sender) # Ok THEN NotOwner
    ELSE IF newOwner = Zero THEN ZeroOwner
    ELSE Ok

transferOwnership(sender, newOwner) ==
    LET r == transferOwnershipResult(sender, newOwner) IN
    /\ lastCall' = Call("transferOwnership", sender, 0, FALSE, newOwner, r, FALSE)
    /\ Called(sender)
    /\ IF r = Ok
       THEN owner' = newOwner
       ELSE UNCHANGED owner
    /\ UNCHANGED <<fanToken, entryTokenAmount, members, isConcertLive, events, balances>>

renounceOwnership(sender) ==
    LET r == onlyOwner(sender) IN
    /\ lastCall' = Call("renounceOwnership", sender, 0, FALSE, Zero, r, FALSE)
    /\ Called(sender)
    /\ IF r = Ok
       THEN owner' = Zero
       ELSE UNCHANGED owner
    /\ UNCHANGED <<fanToken, entryTokenAmount, members, isConcertLive, events, balances>>

\* ---- the environment: a successful FanToken.transfer to another account ----
\* (a reverted transfer changes nothing)
tokenTransfer(sender, to, amount) ==
    /\ to # sender
    /\ balanceOf(sender) >= amount
    /\ lastCall' = Call("transfer", sender, amount, FALSE, to, Ok, TRUE)
    /\ balances' = [balances EXCEPT ![sender] = @ - amount, ![to] = @ + amount]
    /\ UNCHANGED <<contractState, deployerCalled>>

Next ==
    \/ \E a \in Accounts : joinCommunity(a)
    \/ \E a \in Accounts, b \in BOOLEAN : setConcertStatus(a, b)
    \/ \E a \in Accounts, v \in Amounts : setEntryTokenAmount(a, v)
    \/ \E u \in Accounts : isMemberCall(u)
    \/ \E a \in Accounts, n \in Addresses : transferOwnership(a, n)
    \/ \E a \in Accounts : renounceOwnership(a)
    \/ \E a \in Accounts, t \in Accounts, v \in 1..MaxSupply : tokenTransfer(a, t, v)

Spec == Init /\ [][Next]_vars

\* ======================= properties =======================
JoinBy(a) == lastCall'.op = "joinCommunity" /\ lastCall'.sender = a

\* C1: membership is monotonic: in every step, whatever the call and whoever
\* the caller, and under token transfers, an account that is a member before
\* the step is a member after it.
MembershipMonotonic ==
    [][\A a \in Accounts : members[a] => members'[a]]_vars

\* a member whose balance has dropped below the threshold, after a threshold change
MembershipMonotonicWitness ==
    /\ lastCall.op = "setEntryTokenAmount" /\ lastCall.result = Ok
    /\ \E a \in Accounts : members[a] /\ balances[a] < entryTokenAmount

\* C2: a joinCommunity by a non-member a fails with InsufficientBalance iff
\* balanceOf(a) < entryTokenAmount at the call; otherwise (equality and
\* threshold 0 included, the owner included) it succeeds and a is a member.
JoinBalanceRule ==
    [][\A a \in Accounts : (JoinBy(a) /\ ~members[a]) =>
          /\ (lastCall'.result = InsufficientBalance) <=> (balances[a] < entryTokenAmount)
          /\ (balances[a] >= entryTokenAmount) => (lastCall'.result = Ok /\ members'[a])]_vars

\* the owner has just joined with a balance equal to the threshold
JoinBalanceRuleWitness ==
    /\ lastCall.op = "joinCommunity" /\ lastCall.result = Ok
    /\ lastCall.sender = owner
    /\ balances[lastCall.sender] = entryTokenAmount

\* C3: a joinCommunity by a member always fails with AlreadyMember, whatever
\* its balance and the threshold; it emits no event and changes no membership.
AlreadyMemberFirst ==
    [][\A a \in Accounts : (JoinBy(a) /\ members[a]) =>
          /\ lastCall'.result = AlreadyMember
          /\ events' = events
          /\ members' = members]_vars

\* a member has just been refused although its balance is below the threshold
AlreadyMemberFirstWitness ==
    /\ lastCall.op = "joinCommunity" /\ lastCall.result = AlreadyMember
    /\ members[lastCall.sender]
    /\ balances[lastCall.sender] < entryTokenAmount

\* C4: setEntryTokenAmount and setConcertStatus fail with NotOwner for every
\* caller other than the owner; called by the owner they succeed for every
\* argument and the variable then equals the argument.
OwnerGate ==
    [][/\ lastCall'.op = "setEntryTokenAmount" =>
             IF lastCall'.sender = owner
             THEN lastCall'.result = Ok /\ entryTokenAmount' = lastCall'.amount
             ELSE lastCall'.result = NotOwner
       /\ lastCall'.op = "setConcertStatus" =>
             IF lastCall'.sender = owner
             THEN lastCall'.result = Ok /\ isConcertLive' = lastCall'.flag
             ELSE lastCall'.result = NotOwner]_vars

\* the owner has just set the threshold to 0
OwnerGateWitness ==
    /\ lastCall.op = "setEntryTokenAmount" /\ lastCall.result = Ok
    /\ lastCall.amount = 0 /\ entryTokenAmount = 0
    /\ lastCall.sender = owner

\* C5 (as stated): the owner is the account that constructed the contract,
\* in every reachable state.
OwnerFixed == owner = deployer

\* C5 (amended): the owner changes only by a transferOwnership (to its
\* non-zero argument) or a renounceOwnership (to address(0)) called by the
\* current owner; every other call and every call by another account
\* leaves it unchanged.
OwnerChangesOnlyByOwner ==
    [][owner' # owner =>
          /\ lastCall'.sender = owner
          /\ lastCall'.result = Ok
          /\ \/ lastCall'.op = "transferOwnership" /\ owner' = lastCall'.user /\ owner' # Zero
             \/ lastCall'.op = "renounceOwnership" /\ owner' = Zero]_vars

\* ownership has just been handed to another account
OwnerChangesOnlyByOwnerWitness ==
    /\ lastCall.op = "transferOwnership" /\ lastCall.result = Ok
    /\ owner # deployer /\ owner \in Accounts

\* C6: a joinCommunity that fails with AlreadyMember or InsufficientBalance
\* and a setEntryTokenAmount or setConcertStatus that fails with NotOwner
\* leave members, entryTokenAmount, isConcertLive, owner and the event log
\* as they were.
FailureNoChange ==
    [][(/\ lastCall'.op \in {"joinCommunity", "setEntryTokenAmount", "setConcertStatus"}
        /\ lastCall'.result \in {AlreadyMember, InsufficientBalance, NotOwner}) =>
          /\ members' = members
          /\ entryTokenAmount' = entryTokenAmount
          /\ isConcertLive' = isConcertLive
          /\ owner' = owner
          /\ events' = events]_vars

\* a join has just failed for lack of balance
FailureNoChangeWitness ==
    /\ lastCall.op = "joinCommunity" /\ lastCall.result = InsufficientBalance
    /\ ~members[lastCall.sender]

\* C7: a successful joinCommunity by a adds exactly a to the members and
\* appends exactly one MemberJoined(a); threshold, live flag and owner are
\* unchanged; an account becomes a member only by its own call.
JoinFrame ==
    [][/\ \A a \in Accounts : (JoinBy(a) /\ lastCall'.result = Ok) =>
             /\ ~members[a]
             /\ members' = [members EXCEPT ![a] = TRUE]
             /\ events' = Append(events, MemberJoined(a))
             /\ entryTokenAmount' = entryTokenAmount
             /\ isConcertLive' = isConcertLive
             /\ owner' = owner
       /\ \A b \in Accounts : (members'[b] /\ ~members[b]) =>
             (JoinBy(b) /\ lastCall'.result = Ok)]_vars

\* an account has just joined while another eligible account stays outside
JoinFrameWitness ==
    /\ lastCall.op = "joinCommunity" /\ lastCall.result = Ok
    /\ \E b \in Accounts : /\ b # lastCall.sender
                           /\ ~members[b]
                           /\ balances[b] >= entryTokenAmount

\* C8: a successful setEntryTokenAmount changes only entryTokenAmount:
\* members (whatever their balances), isConcertLive, owner and the event log
\* are unchanged.
ThresholdNotRetroactive ==
    [][(lastCall'.op = "setEntryTokenAmount" /\ lastCall'.result = Ok) =>
          /\ members' = members
          /\ isConcertLive' = isConcertLive
          /\ owner' = owner
          /\ events' = events]_vars

\* after a threshold change: a member below the threshold and a non-member at or above it
ThresholdNotRetroactiveWitness ==
    /\ lastCall.op = "setEntryTokenAmount" /\ lastCall.result = Ok
    /\ \E a \in Accounts : members[a] /\ balances[a] < entryTokenAmount
    /\ \E b \in Accounts : ~members[b] /\ balances[b] >= entryTokenAmount

\* C9: after construction no account is a member and isConcertLive is false;
\* an account becomes a member only by its own successful joinCommunity;
\* isConcertLive becomes true only by a successful setConcertStatus(true) of
\* the owner, and never before the deployer has sent a transaction.
InitiallyClosed ==
    /\ (\A a \in Accounts : ~members[a]) /\ ~isConcertLive
    /\ [][/\ \A a \in Accounts : (members'[a] /\ ~members[a]) =>
                (JoinBy(a) /\ lastCall'.result = Ok)
          /\ (isConcertLive' /\ ~isConcertLive) =>
                /\ lastCall'.op = "setConcertStatus"
                /\ lastCall'.sender = owner
                /\ lastCall'.flag = TRUE
                /\ lastCall'.result = Ok]_vars
    /\ [](isConcertLive => deployerCalled)

\* the owner has just set the concert live, with a member already admitted
InitiallyClosedWitness ==
    /\ isConcertLive
    /\ lastCall.op = "setConcertStatus" /\ lastCall.result = Ok /\ lastCall.flag
    /\ \E a \in Accounts : members[a]

\* C10: setConcertStatus changes neither members nor entryTokenAmount, and
\* the outcome of joinCommunity is determined by the caller's membership,
\* its balance and the threshold alone, not by isConcertLive.
LiveIndependent ==
    [][/\ lastCall'.op = "setConcertStatus" =>
             (members' = members /\ entryTokenAmount' = entryTokenAmount /\ events' = events)
       /\ \A a \in Accounts : JoinBy(a) =>
             /\ lastCall'.result =
                   (IF members[a] THEN AlreadyMember
                    ELSE IF balances[a] < entryTokenAmount THEN InsufficientBalance
                    ELSE Ok)
             /\ isConcertLive' = isConcertLive]_vars

\* an account has just joined while the concert is live
LiveIndependentWitness ==
    /\ lastCall.op = "joinCommunity" /\ lastCall.result = Ok
    /\ isConcertLive

JoinedEvents(a) == {i \in 1..Len(events) : events[i] = MemberJoined(a)}
MemberSet == {a \in Accounts : members[a]}

\* C11: calls execute one after the other, in any order; a joinCommunity by
\* a succeeds only when no earlier joinCommunity by a has succeeded, so at
\* most one of any number of calls by the same account succeeds and the log
\* never holds more than one MemberJoined(a).
AtMostOneJoin ==
    [][\A a \in Accounts :
          /\ (JoinBy(a) /\ lastCall'.result = Ok) => JoinedEvents(a) = {}
          /\ Cardinality(JoinedEvents(a)') <= 1]_vars

\* a repeated join by an account that still holds enough tokens has just been refused
AtMostOneJoinWitness ==
    /\ lastCall.op = "joinCommunity" /\ lastCall.result = AlreadyMember
    /\ balances[lastCall.sender] >= entryTokenAmount
    /\ Cardinality(JoinedEvents(lastCall.sender)) = 1

\* C12 (as stated): every successful joinCommunity, setConcertStatus and
\* setEntryTokenAmount emits exactly one event and a failing one emits none.
OneEventPerSuccess ==
    [][lastCall'.op \in {"joinCommunity", "setConcertStatus", "setEntryTokenAmount"} =>
          Len(events') = Len(events) + (IF lastCall'.result = Ok THEN 1 ELSE 0)]_vars

\* C12 (amended): a successful joinCommunity emits exactly one event,
\* MemberJoined(caller); a successful setConcertStatus or setEntryTokenAmount
\* emits none; a failing call emits none.
EventsPerCall ==
    [][/\ (lastCall'.op = "joinCommunity" /\ lastCall'.result = Ok) =>
             events' = Append(events, MemberJoined(lastCall'.sender))
       /\ (lastCall'.op = "joinCommunity" /\ lastCall'.result # Ok) => events' = events
       /\ lastCall'.op \in {"setConcertStatus", "setEntryTokenAmount"} => events' = events]_vars

\* the owner has set the concert live and the log is still empty
EventsPerCallWitness ==
    /\ lastCall.op = "setConcertStatus" /\ lastCall.result = Ok
    /\ isConcertLive
    /\ events = <<>>

\* C13: no call of joinCommunity, setConcertStatus, setEntryTokenAmount or
\* isMember, succeeding or failing, changes a token balance, and fanToken
\* is the address given at construction in every step.
BalancesReadOnly ==
    [][/\ lastCall'.op \in {"joinCommunity", "setConcertStatus", "setEntryTokenAmount", "isMember"} =>
             balances' = balances
       /\ fanToken = FanTokenAddress /\ fanToken' = fanToken]_vars

\* an account has joined at a positive threshold and still holds its tokens
BalancesReadOnlyWitness ==
    /\ lastCall.op = "joinCommunity" /\ lastCall.result = Ok
    /\ entryTokenAmount >= 1
    /\ balances[lastCall.sender] >= entryTokenAmount
    /\ totalSupply >= 1

\* C14: the accounts named by the logged MemberJoined events are exactly the
\* members, and no account is named twice.
LogMatchesMembers ==
    /\ {events[i].member : i \in 1..Len(events)} = MemberSet
    /\ \A i \in 1..Len(events) : events[i].name = "MemberJoined"
    /\ \A i, j \in 1..Len(events) : events[i].member = events[j].member => i = j

\* a second account has just joined
LogMatchesMembersWitness ==
    /\ lastCall.op = "joinCommunity" /\ lastCall.result = Ok
    /\ Len(events) >= 2
    /\ \E a \in Accounts : ~(a = owner) /\ members[a]

\* C15: an account is admitted only with a balance of at least the threshold
\* in force at its call (membership is not re-checked afterwards: see the
\* witness, where one holding has admitted more accounts than it could
\* cover at once).
AdmittedWithBalance ==
    [][\A a \in Accounts : (members'[a] /\ ~members[a]) =>
          /\ balances[a] >= entryTokenAmount
          /\ balances'[a] >= entryTokenAmount']_vars

\* a holding equal to the threshold has been passed on and has admitted two
\* accounts: more members than totalSupply / entryTokenAmount
AdmittedWithBalanceWitness ==
    /\ lastCall.op = "joinCommunity" /\ lastCall.result = Ok
    /\ entryTokenAmount >= 1
    /\ totalSupply = entryTokenAmount
    /\ Cardinality(MemberSet) >= 2
    /\ Cardinality(MemberSet) * entryTokenAmount > totalSupply
    /\ \E a \in Accounts : members[a] /\ balances[a] < entryTokenAmount

TypeOK ==
    /\ owner \in Addresses
    /\ entryTokenAmount \in Amounts
    /\ members \in [Accounts -> BOOLEAN]
    /\ isConcertLive \in BOOLEAN
    /\ balances \in [Accounts -> 0..MaxSupply]
====
